---- MODULE Spec2Model ----
(***************************************************************************)
(* power-user-weather: the TTL disk cache in front of every HTTP request   *)
(* (src/src/url_fetch.rs), the measure/model key resolver and the decoder  *)
(* of "daily" responses (src/src/fetch_data.rs, src/src/models.rs), and    *)
(* the date ranges of the requests of main (src/src/main.rs).              *)
(*                                                                         *)
(* Time is counted in whole seconds.  A response body is a sequence of     *)
(* chunks; write_all stores one chunk per write(2) call, so a file can be  *)
(* observed empty or partly written.  Strings handled by the key resolver  *)
(* are sequences of one-character strings.                                 *)
(***************************************************************************)
EXTENDS Integers, Sequences, FiniteSets, TLC

VARIABLES now, ticks, files, task, prev, calls, key, origin, resolved, registry,
          response, decoder, run

vars == <<now, ticks, files, task, prev, calls, key, origin, resolved, registry,
          response, decoder, run>>

cacheVars == <<now, ticks, files, task, prev, calls>>

keyVars == <<key, origin, resolved, registry>>

decodeVars == <<response, decoder>>

mainVars == <<run>>

-----------------------------------------------------------------------------
(* Bounds *)

\* clock advances per behaviour
MaxTicks == 2

\* fetch_url_cached calls per behaviour
MaxCalls == 3

\* fetch_url_cached calls per behaviour when callers run concurrently
MaxConcCalls == 2

\* fetch_url_cached calls per behaviour when termination is checked
MaxLiveCalls == 2

-----------------------------------------------------------------------------
(* url_fetch.rs *)

\* the TTL had the duration been built with from_millis: 3.6 seconds
CACHE_TTL_Millis == (60 * 60) \div 1000

\* const CACHE_TTL: Duration = Duration::from_secs(60 * 60)
CACHE_TTL == 60 * 60

\* "Cache duration (1 hour)", in seconds
OneHour == 3600

\* the clock advances by one second or by one second less than an hour
TickSteps == {1, OneHour - 1}

\* callers of fetch_url_cached: tasks or processes sharing the cache directory
Procs == {"p1", "p2"}

\* request URLs; "not a url" is rejected by Url::parse
GoodUrls == {"u1", "u2"}

Urls == GoodUrls \cup {"not a url"}

\* bodies of success-status responses, as chunk sequences of different
\* lengths
Bodies == {<<"a1", "a2">>, <<"b1">>}

\* body carried by a non-success response
ErrorBody == <<"e1", "e2">>

\* bytes of a hole left by a write past the end of a file
Hole == "00"

Ok(b) == [tag |-> "Ok", body |-> b, kind |-> "none"]

Err(k) == [tag |-> "Err", body |-> <<>>, kind |-> k]

\* Option<String> results of read_if_fresh
Some(b) == [tag |-> "Some", body |-> b, kind |-> "none"]

None == [tag |-> "None", body |-> <<>>, kind |-> "none"]

NoResult == [tag |-> "none", body |-> <<>>, kind |-> "none"]

\* what ProjectDirs::from and fs::create_dir_all(cache_dir) can do
DirOutcomes == {"ok", "no project dirs", "create_dir_all failed"}

\* cache_file_path: Url::parse(url)?, ProjectDirs::from(..).ok_or_else(..)?,
\* fs::create_dir_all(cache_dir)?, then a file name under the cache directory
\* made of the sanitized host/path/query prefix and the first 16 hex digits of
\* SHA-256(url).  The hash is not computed here: the name is kept symbolic as
\* the pair <<"cache_dir", url>>.
cache_file_path(u, dir) ==
  IF u \notin GoodUrls THEN [tag |-> "Err", kind |-> "InvalidUrl", path |-> <<>>]
  ELSE IF dir = "no project dirs" THEN [tag |-> "Err", kind |-> "NoCacheDir", path |-> <<>>]
  ELSE IF dir = "create_dir_all failed" THEN [tag |-> "Err", kind |-> "CreateDir", path |-> <<>>]
  ELSE [tag |-> "Ok", kind |-> "none", path |-> <<"cache_dir", u>>]

Paths == {cache_file_path(u, "ok").path : u \in GoodUrls}

\* a file of the cache directory; lastBody remembers the body that the caller
\* which wrote to the file last was storing, and lastDone that this caller's
\* write_all has completed
NoFile ==
  [exists |-> FALSE, contents |-> <<>>, mtime |-> 0, lastBody |-> <<>>,
   lastDone |-> FALSE]

\* write(2) of one chunk at offset off (0-based) of a file
WriteAt(contents, off, chunk) ==
  IF off < Len(contents) THEN [contents EXCEPT ![off + 1] = chunk]
  ELSE contents \o [i \in 1..(off - Len(contents)) |-> Hole] \o <<chunk>>

\* the file opened for writing without truncation: its contents are kept
File_create_NoTruncate(f, t, body) ==
  [exists |-> TRUE, contents |-> f.contents, mtime |-> t, lastBody |-> body,
   lastDone |-> FALSE]

\* fs::File::create: the file is created, or truncated to length 0 if it exists
File_create(f, t, body) ==
  [exists |-> TRUE, contents |-> <<>>, mtime |-> t, lastBody |-> body,
   lastDone |-> FALSE]

\* the comparison turned around
IsFresh_Inverted(age) == age > CACHE_TTL

\* the boundary counted as fresh
IsFresh_Inclusive(age) == age <= CACHE_TTL

\* if age < CACHE_TTL
IsFresh(age) == age < CACHE_TTL

\* the status of the response not looked at
error_for_status_Ignored(resp) == Ok(resp.body)

\* response.error_for_status()
error_for_status(resp) ==
  IF resp.success THEN Ok(resp.body) ELSE Err("Status")

IdleTask ==
  [pc |-> "idle", url |-> "none", path |-> <<>>, body |-> <<>>, offset |-> 0,
   result |-> NoResult,
   \* history of the call, kept for the properties
   reqs |-> 0, net |-> "none", tcall |-> 0, freshAtCall |-> FALSE, checked |-> FALSE,
   tcheck |-> 0, mtimeSeen |-> 0, lookup |-> NoResult, ioFail |-> "none",
   wrote |-> FALSE, cacheAtCall |-> <<>>]

\* what is remembered of the call that returned last
Summary(t) ==
  [url |-> t.url, tcall |-> t.tcall, freshAtCall |-> t.freshAtCall,
   reqs |-> t.reqs, wrote |-> t.wrote,
   cleanIo |-> t.ioFail = "none" /\ t.lookup.tag \in {"Some", "None"}]

NoCall ==
  [url |-> "none", tcall |-> 0, freshAtCall |-> FALSE, reqs |-> 0, wrote |-> FALSE,
   cleanIo |-> FALSE]

\* a file as an earlier run of the program left it: absent, or a complete body
\* stored at time 0 or, the clock having been set back since, at time 1
InitFiles ==
  {NoFile} \cup
  {[exists |-> TRUE, contents |-> b, mtime |-> t, lastBody |-> b, lastDone |-> TRUE] :
     b \in {<<"a1", "a2">>}, t \in {0, 1}}

InitCache ==
  /\ now = 0
  /\ ticks = 0
  /\ files \in [Paths -> InitFiles]
  /\ task = [p \in Procs |-> IdleTask]
  /\ prev = NoCall
  /\ calls = 0

FileFresh(f, t) == f.exists /\ t - f.mtime >= 0 /\ t - f.mtime < CACHE_TTL

\* SystemTime moves forward
Tick ==
  /\ ticks < MaxTicks
  /\ \E d \in TickSteps : now' = now + d
  /\ ticks' = ticks + 1
  /\ UNCHANGED <<files, task, prev, calls, keyVars, decodeVars, mainVars>>

\* fetch_url_cached(url): let cache_path = cache_file_path(url)?
Call(p, U, maxCalls) ==
  /\ task[p].pc = "idle"
  /\ calls < maxCalls
  /\ calls' = calls + 1
  /\ \E u \in U, dir \in DirOutcomes :
       LET cp == cache_file_path(u, dir) IN
       IF cp.tag = "Err"
       THEN task' = [task EXCEPT ![p] =
              [IdleTask EXCEPT !.pc = "done", !.url = u, !.tcall = now,
                               !.tcheck = now, !.result = Err(cp.kind)]]
       ELSE task' = [task EXCEPT ![p] =
              [IdleTask EXCEPT !.pc = "exists", !.url = u, !.path = cp.path,
                               !.tcall = now, !.tcheck = now,
                               !.freshAtCall = FileFresh(files[cp.path], now),
                               !.cacheAtCall = files]]
  /\ UNCHANGED <<now, ticks, files, prev, keyVars, decodeVars, mainVars>>

\* read_if_fresh: if !path.exists() { return Ok(None) }
Exists(p) ==
  /\ task[p].pc = "exists"
  /\ IF files[task[p].path].exists
     THEN task' = [task EXCEPT ![p].pc = "metadata"]
     ELSE task' = [task EXCEPT ![p].pc = "send", ![p].lookup = None,
                               ![p].tcheck = now]
  /\ UNCHANGED <<now, ticks, files, prev, calls, keyVars, decodeVars, mainVars>>

\* read_if_fresh: fs::metadata(path)?, metadata.modified()?,
\* SystemTime::now().duration_since(modified)?, age < CACHE_TTL
Metadata(p) ==
  /\ task[p].pc = "metadata"
  /\ LET f == files[task[p].path]
         age == now - f.mtime
         seen == [task EXCEPT ![p].checked = TRUE, ![p].tcheck = now,
                              ![p].mtimeSeen = f.mtime]
     IN \E metaOk \in BOOLEAN :
          IF ~metaOk
          THEN task' = [seen EXCEPT ![p].pc = "done", ![p].lookup = Err("Metadata"),
                                    ![p].ioFail = "metadata",
                                    ![p].result = Err("Metadata")]
          ELSE IF age < 0
          THEN task' = [seen EXCEPT ![p].pc = "done", ![p].lookup = Err("SystemTime"),
                                    ![p].result = Err("SystemTime")]
          ELSE IF IsFresh(age)
          THEN task' = [seen EXCEPT ![p].pc = "read"]
          ELSE task' = [seen EXCEPT ![p].pc = "send", ![p].lookup = None]
  /\ UNCHANGED <<now, ticks, files, prev, calls, keyVars, decodeVars, mainVars>>

\* read_if_fresh: let contents = fs::read_to_string(path)?; Ok(Some(contents))
\* fetch_url_cached: return Ok(contents)
ReadToString(p) ==
  /\ task[p].pc = "read"
  /\ LET f == files[task[p].path] IN
     \E readOk \in BOOLEAN :
       IF readOk
       THEN task' = [task EXCEPT ![p].pc = "done", ![p].lookup = Some(f.contents),
                                 ![p].result = Ok(f.contents)]
       ELSE task' = [task EXCEPT ![p].pc = "done", ![p].lookup = Err("Read"),
                                 ![p].ioFail = "read",
                                 ![p].result = Err("Read")]
  /\ UNCHANGED <<now, ticks, files, prev, calls, keyVars, decodeVars, mainVars>>

\* the responses the server can give
Responses ==
  {[success |-> TRUE, body |-> b] : b \in Bodies} \cup
  {[success |-> FALSE, body |-> ErrorBody]}

NetOf(resp) == IF resp.success THEN "success" ELSE "failure"

\* client.get(url).send().await?  and  response.error_for_status()?
\* The client is Client::new(), which sets no timeout: when the server accepts
\* the request and sends nothing, the future of send() stays pending.
Send(p) ==
  /\ task[p].pc = "send"
  /\ \/ task' = [task EXCEPT ![p].pc = "done", ![p].reqs = @ + 1,
                             ![p].net = "connect", ![p].result = Err("Connect")]
     \/ task' = [task EXCEPT ![p].pc = "pending", ![p].reqs = @ + 1,
                             ![p].net = "silent"]
     \/ \E resp \in Responses :
          LET r == error_for_status(resp) IN
          IF r.tag = "Err"
          THEN task' = [task EXCEPT ![p].pc = "done", ![p].reqs = @ + 1,
                                    ![p].net = NetOf(resp), ![p].result = r]
          ELSE task' = [task EXCEPT ![p].pc = "text", ![p].reqs = @ + 1,
                                    ![p].net = NetOf(resp), ![p].body = r.body]
  /\ UNCHANGED <<now, ticks, files, prev, calls, keyVars, decodeVars, mainVars>>

\* let body = response.text().await?
Text(p) ==
  /\ task[p].pc = "text"
  /\ \/ task' = [task EXCEPT ![p].pc = "create"]
     \/ task' = [task EXCEPT ![p].pc = "done", ![p].body = <<>>,
                             ![p].net = "body", ![p].result = Err("Body")]
  /\ UNCHANGED <<now, ticks, files, prev, calls, keyVars, decodeVars, mainVars>>

\* write_cache: let mut file = fs::File::create(path)?
\* (creates the file or truncates it to length 0)
Create(p) ==
  /\ task[p].pc = "create"
  /\ \/ /\ files' = [files EXCEPT ![task[p].path] = File_create(@, now, task[p].body)]
        /\ task' = [task EXCEPT ![p].pc = "write", ![p].offset = 0]
     \/ /\ task' = [task EXCEPT ![p].pc = "done", ![p].ioFail = "create",
                                ![p].result = Err("Create")]
        /\ UNCHANGED files
  /\ UNCHANGED <<now, ticks, prev, calls, keyVars, decodeVars, mainVars>>

\* write_cache: file.write_all(contents.as_bytes())?, one write(2) per chunk;
\* fetch_url_cached: Ok(body)
Write(p) ==
  /\ task[p].pc = "write"
  /\ LET t == task[p] IN
     \/ /\ files' = [files EXCEPT ![t.path] =
                       [exists |-> TRUE,
                        contents |-> WriteAt(@.contents, t.offset, t.body[t.offset + 1]),
                        mtime |-> now, lastBody |-> t.body,
                        lastDone |-> (t.offset + 1 = Len(t.body))]]
        /\ IF t.offset + 1 = Len(t.body)
           THEN task' = [task EXCEPT ![p].pc = "done", ![p].offset = @ + 1,
                                     ![p].wrote = TRUE, ![p].result = Ok(t.body)]
           ELSE task' = [task EXCEPT ![p].offset = @ + 1]
     \/ /\ task' = [task EXCEPT ![p].pc = "done", ![p].ioFail = "write",
                                ![p].result = Err("Write")]
        /\ UNCHANGED files
  /\ UNCHANGED <<now, ticks, prev, calls, keyVars, decodeVars, mainVars>>

\* the call returns to its caller
Return(p) ==
  /\ task[p].pc = "done"
  /\ prev' = Summary(task[p])
  /\ task' = [task EXCEPT ![p] = IdleTask]
  /\ UNCHANGED <<now, ticks, files, calls, keyVars, decodeVars, mainVars>>

Step(p, U, maxCalls) ==
  \/ Call(p, U, maxCalls)
  \/ Exists(p)
  \/ Metadata(p)
  \/ ReadToString(p)
  \/ Send(p)
  \/ Text(p)
  \/ Create(p)
  \/ Write(p)
  \/ Return(p)

\* no field name is being resolved
InitKeyIdle ==
  /\ key = <<>>
  /\ origin = [measure |-> <<>>, sep |-> <<>>, model |-> <<>>]
  /\ resolved = [tag |-> "none", measure |-> <<>>, model |-> <<>>, kind |-> "none"]
  /\ registry = <<>>

\* a HashMap without entries
EmptyMap == [k \in {} |-> <<>>]

\* the value of decode_response_to_daily_data_columnar_format before it returns
NoDataset ==
  [tag |-> "none", time |-> <<>>, data_fields |-> EmptyMap, field |-> <<>>, kind |-> "none"]

\* no response text is being decoded
InitDecodeIdle ==
  /\ response = [shape |-> "none", time |-> <<>>, fields |-> EmptyMap]
  /\ decoder = [pc |-> "idle", time |-> <<>>, data_fields |-> EmptyMap, todo |-> {},
                visited |-> 0, acc |-> EmptyMap, result |-> NoDataset]

\* main is not running
InitMainIdle ==
  run = [pc |-> "idle", start_date |-> 0, end_date |-> 0, today |-> 0,
         historical |-> FALSE, forecast |-> FALSE, ensemble |-> FALSE,
         requests |-> <<>>, retrieved |-> 0, result |-> "none"]

\* the cache directory as earlier runs left it, and no call in progress
Init == InitCache /\ InitKeyIdle /\ InitDecodeIdle /\ InitMainIdle

\* one caller at a time
Next == Tick \/ Step("p1", Urls, MaxCalls)

Spec == Init /\ [][Next]_vars

\* callers running concurrently on the same cache directory
NextConc == Tick \/ \E p \in Procs : Step(p, {"u1"}, MaxConcCalls)

SpecConc == Init /\ [][NextConc]_vars

\* one caller of one URL
NextLive == Tick \/ Step("p1", {"u1"}, MaxLiveCalls)

\* the executor runs the caller's task whenever the task can take a step
SpecLive == Init /\ [][NextLive]_vars /\ WF_vars(Step("p1", {"u1"}, MaxLiveCalls))

-----------------------------------------------------------------------------
(* models.rs *)

\* const ARCHIVE_MODELS
ARCHIVE_MODELS ==
  <<
    \* best_match
    <<"b", "e", "s", "t", "_", "m", "a", "t", "c", "h">>,
    \* ecmwf_ifs
    <<"e", "c", "m", "w", "f", "_", "i", "f", "s">>,
    \* ecmwf_ifs_analysis_long_window
    <<"e", "c", "m", "w", "f", "_", "i", "f", "s", "_", "a", "n", "a", "l", "y", "s", "i", "s", "_", "l", "o", "n", "g", "_", "w", "i", "n", "d", "o", "w">>,
    \* era5_seamless
    <<"e", "r", "a", "5", "_", "s", "e", "a", "m", "l", "e", "s", "s">>,
    \* era5
    <<"e", "r", "a", "5">>,
    \* era5_land
    <<"e", "r", "a", "5", "_", "l", "a", "n", "d">>,
    \* era5_ensemble
    <<"e", "r", "a", "5", "_", "e", "n", "s", "e", "m", "b", "l", "e">>,
    \* cerra
    <<"c", "e", "r", "r", "a">>
  >>

\* const ARCHIVE_DAILY_SUMMABLE_PRECIPITATION_MEASURES
ARCHIVE_DAILY_SUMMABLE_PRECIPITATION_MEASURES ==
  <<
    \* rain_sum
    <<"r", "a", "i", "n", "_", "s", "u", "m">>,
    \* snowfall_sum
    <<"s", "n", "o", "w", "f", "a", "l", "l", "_", "s", "u", "m">>,
    \* precipitation_sum
    <<"p", "r", "e", "c", "i", "p", "i", "t", "a", "t", "i", "o", "n", "_", "s", "u", "m">>,
    \* precipitation_hours
    <<"p", "r", "e", "c", "i", "p", "i", "t", "a", "t", "i", "o", "n", "_", "h", "o", "u", "r", "s">>
  >>

\* const FORECAST_MODELS
FORECAST_MODELS ==
  <<
    \* best_match
    <<"b", "e", "s", "t", "_", "m", "a", "t", "c", "h">>,
    \* ecmwf_ifs
    <<"e", "c", "m", "w", "f", "_", "i", "f", "s">>,
    \* ecmwf_ifs025
    <<"e", "c", "m", "w", "f", "_", "i", "f", "s", "0", "2", "5">>,
    \* ecmwf_aifs025_single
    <<"e", "c", "m", "w", "f", "_", "a", "i", "f", "s", "0", "2", "5", "_", "s", "i", "n", "g", "l", "e">>,
    \* cma_grapes_global
    <<"c", "m", "a", "_", "g", "r", "a", "p", "e", "s", "_", "g", "l", "o", "b", "a", "l">>,
    \* bom_access_global
    <<"b", "o", "m", "_", "a", "c", "c", "e", "s", "s", "_", "g", "l", "o", "b", "a", "l">>,
    \* icon_seamless
    <<"i", "c", "o", "n", "_", "s", "e", "a", "m", "l", "e", "s", "s">>,
    \* icon_global
    <<"i", "c", "o", "n", "_", "g", "l", "o", "b", "a", "l">>,
    \* icon_eu
    <<"i", "c", "o", "n", "_", "e", "u">>,
    \* icon_d2
    <<"i", "c", "o", "n", "_", "d", "2">>,
    \* metno_seamless
    <<"m", "e", "t", "n", "o", "_", "s", "e", "a", "m", "l", "e", "s", "s">>,
    \* metno_nordic
    <<"m", "e", "t", "n", "o", "_", "n", "o", "r", "d", "i", "c">>,
    \* dmi_harmonie_arome_europe
    <<"d", "m", "i", "_", "h", "a", "r", "m", "o", "n", "i", "e", "_", "a", "r", "o", "m", "e", "_", "e", "u", "r", "o", "p", "e">>,
    \* dmi_seamless
    <<"d", "m", "i", "_", "s", "e", "a", "m", "l", "e", "s", "s">>,
    \* knmi_harmonie_arome_netherlands
    <<"k", "n", "m", "i", "_", "h", "a", "r", "m", "o", "n", "i", "e", "_", "a", "r", "o", "m", "e", "_", "n", "e", "t", "h", "e", "r", "l", "a", "n", "d", "s">>,
    \* knmi_harmonie_arome_europe
    <<"k", "n", "m", "i", "_", "h", "a", "r", "m", "o", "n", "i", "e", "_", "a", "r", "o", "m", "e", "_", "e", "u", "r", "o", "p", "e">>,
    \* knmi_seamless
    <<"k", "n", "m", "i", "_", "s", "e", "a", "m", "l", "e", "s", "s">>,
    \* gem_hrdps_west
    <<"g", "e", "m", "_", "h", "r", "d", "p", "s", "_", "w", "e", "s", "t">>,
    \* gem_hrdps_continental
    <<"g", "e", "m", "_", "h", "r", "d", "p", "s", "_", "c", "o", "n", "t", "i", "n", "e", "n", "t", "a", "l">>,
    \* gem_regional
    <<"g", "e", "m", "_", "r", "e", "g", "i", "o", "n", "a", "l">>,
    \* gem_global
    <<"g", "e", "m", "_", "g", "l", "o", "b", "a", "l">>,
    \* gem_seamless
    <<"g", "e", "m", "_", "s", "e", "a", "m", "l", "e", "s", "s">>,
    \* ncep_hgefs025_ensemble_mean
    <<"n", "c", "e", "p", "_", "h", "g", "e", "f", "s", "0", "2", "5", "_", "e", "n", "s", "e", "m", "b", "l", "e", "_", "m", "e", "a", "n">>,
    \* ncep_aigfs025
    <<"n", "c", "e", "p", "_", "a", "i", "g", "f", "s", "0", "2", "5">>,
    \* gfs_graphcast025
    <<"g", "f", "s", "_", "g", "r", "a", "p", "h", "c", "a", "s", "t", "0", "2", "5">>,
    \* ncep_nam_conus
    <<"n", "c", "e", "p", "_", "n", "a", "m", "_", "c", "o", "n", "u", "s">>,
    \* ncep_nbm_conus
    <<"n", "c", "e", "p", "_", "n", "b", "m", "_", "c", "o", "n", "u", "s">>,
    \* gfs_hrrr
    <<"g", "f", "s", "_", "h", "r", "r", "r">>,
    \* gfs_global
    <<"g", "f", "s", "_", "g", "l", "o", "b", "a", "l">>,
    \* gfs_seamless
    <<"g", "f", "s", "_", "s", "e", "a", "m", "l", "e", "s", "s">>,
    \* jma_seamless
    <<"j", "m", "a", "_", "s", "e", "a", "m", "l", "e", "s", "s">>,
    \* jma_msm
    <<"j", "m", "a", "_", "m", "s", "m">>,
    \* jma_gsm
    <<"j", "m", "a", "_", "g", "s", "m">>,
    \* meteofrance_seamless
    <<"m", "e", "t", "e", "o", "f", "r", "a", "n", "c", "e", "_", "s", "e", "a", "m", "l", "e", "s", "s">>,
    \* meteofrance_arpege_world
    <<"m", "e", "t", "e", "o", "f", "r", "a", "n", "c", "e", "_", "a", "r", "p", "e", "g", "e", "_", "w", "o", "r", "l", "d">>,
    \* meteofrance_arpege_europe
    <<"m", "e", "t", "e", "o", "f", "r", "a", "n", "c", "e", "_", "a", "r", "p", "e", "g", "e", "_", "e", "u", "r", "o", "p", "e">>,
    \* meteofrance_arome_france
    <<"m", "e", "t", "e", "o", "f", "r", "a", "n", "c", "e", "_", "a", "r", "o", "m", "e", "_", "f", "r", "a", "n", "c", "e">>,
    \* meteofrance_arome_france_hd
    <<"m", "e", "t", "e", "o", "f", "r", "a", "n", "c", "e", "_", "a", "r", "o", "m", "e", "_", "f", "r", "a", "n", "c", "e", "_", "h", "d">>,
    \* ukmo_seamless
    <<"u", "k", "m", "o", "_", "s", "e", "a", "m", "l", "e", "s", "s">>,
    \* ukmo_global_deterministic_10km
    <<"u", "k", "m", "o", "_", "g", "l", "o", "b", "a", "l", "_", "d", "e", "t", "e", "r", "m", "i", "n", "i", "s", "t", "i", "c", "_", "1", "0", "k", "m">>,
    \* ukmo_uk_deterministic_2km
    <<"u", "k", "m", "o", "_", "u", "k", "_", "d", "e", "t", "e", "r", "m", "i", "n", "i", "s", "t", "i", "c", "_", "2", "k", "m">>,
    \* meteoswiss_icon_ch2
    <<"m", "e", "t", "e", "o", "s", "w", "i", "s", "s", "_", "i", "c", "o", "n", "_", "c", "h", "2">>,
    \* meteoswiss_icon_ch1
    <<"m", "e", "t", "e", "o", "s", "w", "i", "s", "s", "_", "i", "c", "o", "n", "_", "c", "h", "1">>,
    \* meteoswiss_icon_seamless
    <<"m", "e", "t", "e", "o", "s", "w", "i", "s", "s", "_", "i", "c", "o", "n", "_", "s", "e", "a", "m", "l", "e", "s", "s">>,
    \* italia_meteo_arpae_icon_2i
    <<"i", "t", "a", "l", "i", "a", "_", "m", "e", "t", "e", "o", "_", "a", "r", "p", "a", "e", "_", "i", "c", "o", "n", "_", "2", "i">>,
    \* kma_gdps
    <<"k", "m", "a", "_", "g", "d", "p", "s">>,
    \* kma_ldps
    <<"k", "m", "a", "_", "l", "d", "p", "s">>,
    \* kma_seamless
    <<"k", "m", "a", "_", "s", "e", "a", "m", "l", "e", "s", "s">>
  >>

\* const FORECAST_DAILY_SUMMABLE_PRECIPITATION_MEASURES
FORECAST_DAILY_SUMMABLE_PRECIPITATION_MEASURES ==
  <<
    \* rain_sum
    <<"r", "a", "i", "n", "_", "s", "u", "m">>,
    \* showers_sum
    <<"s", "h", "o", "w", "e", "r", "s", "_", "s", "u", "m">>,
    \* snowfall_sum
    <<"s", "n", "o", "w", "f", "a", "l", "l", "_", "s", "u", "m">>,
    \* precipitation_sum
    <<"p", "r", "e", "c", "i", "p", "i", "t", "a", "t", "i", "o", "n", "_", "s", "u", "m">>,
    \* precipitation_hours
    <<"p", "r", "e", "c", "i", "p", "i", "t", "a", "t", "i", "o", "n", "_", "h", "o", "u", "r", "s">>
  >>

\* const ENSEMBLE_MODELS
ENSEMBLE_MODELS ==
  <<
    \* icon_seamless_eps
    <<"i", "c", "o", "n", "_", "s", "e", "a", "m", "l", "e", "s", "s", "_", "e", "p", "s">>,
    \* icon_global_eps
    <<"i", "c", "o", "n", "_", "g", "l", "o", "b", "a", "l", "_", "e", "p", "s">>,
    \* icon_eu_eps
    <<"i", "c", "o", "n", "_", "e", "u", "_", "e", "p", "s">>,
    \* icon_d2_eps
    <<"i", "c", "o", "n", "_", "d", "2", "_", "e", "p", "s">>,
    \* meteoswiss_icon_ch1_ensemble
    <<"m", "e", "t", "e", "o", "s", "w", "i", "s", "s", "_", "i", "c", "o", "n", "_", "c", "h", "1", "_", "e", "n", "s", "e", "m", "b", "l", "e">>,
    \* meteoswiss_icon_ch2_ensemble
    <<"m", "e", "t", "e", "o", "s", "w", "i", "s", "s", "_", "i", "c", "o", "n", "_", "c", "h", "2", "_", "e", "n", "s", "e", "m", "b", "l", "e">>,
    \* ncep_aigefs025
    <<"n", "c", "e", "p", "_", "a", "i", "g", "e", "f", "s", "0", "2", "5">>,
    \* ncep_gefs025
    <<"n", "c", "e", "p", "_", "g", "e", "f", "s", "0", "2", "5">>,
    \* ncep_gefs05
    <<"n", "c", "e", "p", "_", "g", "e", "f", "s", "0", "5">>,
    \* ncep_gefs_seamless
    <<"n", "c", "e", "p", "_", "g", "e", "f", "s", "_", "s", "e", "a", "m", "l", "e", "s", "s">>,
    \* bom_access_global_ensemble
    <<"b", "o", "m", "_", "a", "c", "c", "e", "s", "s", "_", "g", "l", "o", "b", "a", "l", "_", "e", "n", "s", "e", "m", "b", "l", "e">>,
    \* gem_global_ensemble
    <<"g", "e", "m", "_", "g", "l", "o", "b", "a", "l", "_", "e", "n", "s", "e", "m", "b", "l", "e">>,
    \* ecmwf_ifs025_ensemble
    <<"e", "c", "m", "w", "f", "_", "i", "f", "s", "0", "2", "5", "_", "e", "n", "s", "e", "m", "b", "l", "e">>,
    \* ecmwf_aifs025_ensemble
    <<"e", "c", "m", "w", "f", "_", "a", "i", "f", "s", "0", "2", "5", "_", "e", "n", "s", "e", "m", "b", "l", "e">>,
    \* ukmo_global_ensemble_20km
    <<"u", "k", "m", "o", "_", "g", "l", "o", "b", "a", "l", "_", "e", "n", "s", "e", "m", "b", "l", "e", "_", "2", "0", "k", "m">>,
    \* ukmo_uk_ensemble_2km
    <<"u", "k", "m", "o", "_", "u", "k", "_", "e", "n", "s", "e", "m", "b", "l", "e", "_", "2", "k", "m">>
  >>

\* const ENSEMBLE_DAILY_SUMMABLE_PRECIPITATION_MEASURES
ENSEMBLE_DAILY_SUMMABLE_PRECIPITATION_MEASURES ==
  <<
    \* rain_sum
    <<"r", "a", "i", "n", "_", "s", "u", "m">>,
    \* snowfall_sum
    <<"s", "n", "o", "w", "f", "a", "l", "l", "_", "s", "u", "m">>,
    \* precipitation_sum
    <<"p", "r", "e", "c", "i", "p", "i", "t", "a", "t", "i", "o", "n", "_", "s", "u", "m">>,
    \* precipitation_hours
    <<"p", "r", "e", "c", "i", "p", "i", "t", "a", "t", "i", "o", "n", "_", "h", "o", "u", "r", "s">>
  >>

\* the characters of the model and measure names, in byte order
Alphabet ==
  <<"0", "1", "2", "3", "4", "5", "6", "7", "8", "9", "_",
    "a", "b", "c", "d", "e", "f", "g", "h", "i", "j", "k", "l", "m",
    "n", "o", "p", "q", "r", "s", "t", "u", "v", "w", "x", "y", "z">>

\* position of a character in the byte order
Code(c) == CHOOSE i \in DOMAIN Alphabet : Alphabet[i] = c

Range(seq) == {seq[i] : i \in DOMAIN seq}

\* Ord for &str: byte-wise lexicographic, a proper prefix being smaller
StrLess(a, b) ==
  \E i \in 1..Len(b) :
    /\ \A j \in 1..(i - 1) : j <= Len(a) /\ a[j] = b[j]
    /\ \/ i > Len(a)
       \/ Code(a[i]) < Code(b[i])

\* BTreeSet::into_iter().collect(): the elements in ascending order
BTreeSetIntoVec(set) ==
  [i \in 1..Cardinality(set) |->
     CHOOSE x \in set : Cardinality({y \in set : StrLess(y, x)}) = i - 1]

\* the key of the sort without Reverse: the shortest first
ReverseLenBefore_Ascending(a, b) == Len(a) < Len(b)

\* the key of the sort: std::cmp::Reverse(s.len()); TRUE when a sorts before b
ReverseLenBefore(a, b) == Len(a) > Len(b)

\* the vector left in the order of the BTreeSet
sort_by_key_Skipped(v) == v

\* Vec::sort_by_key: a stable sort
sort_by_key(v) ==
  LET pos(i) == 1 + Cardinality({j \in DOMAIN v : ReverseLenBefore(v[j], v[i])})
                  + Cardinality({j \in 1..(i - 1) :
                                   /\ ~ReverseLenBefore(v[j], v[i])
                                   /\ ~ReverseLenBefore(v[i], v[j])})
  IN [k \in DOMAIN v |-> v[CHOOSE i \in DOMAIN v : pos(i) = k]]

\* pub static ALL_DISTINCT_MODELS
ALL_DISTINCT_MODELS ==
  sort_by_key(BTreeSetIntoVec(Range(ARCHIVE_MODELS) \cup Range(FORECAST_MODELS)
                               \cup Range(ENSEMBLE_MODELS)))

-----------------------------------------------------------------------------
(* fetch_data.rs *)

\* str::ends_with
ends_with(s, suffix) ==
  /\ Len(suffix) <= Len(s)
  /\ SubSeq(s, Len(s) - Len(suffix) + 1, Len(s)) = suffix

\* str::strip_suffix: the string without the suffix, or None
strip_suffix(s, suffix) ==
  IF ends_with(s, suffix)
  THEN [tag |-> "Some", val |-> SubSeq(s, 1, Len(s) - Len(suffix))]
  ELSE [tag |-> "None", val |-> <<>>]

\* the suffix formatted without its separator
SeparatorAndModel_NoSeparator(model) == model

\* format!("_{}", model)
SeparatorAndModel(model) == <<"_">> \o model

\* the last match instead of the first
FindModel_Last(k) ==
  LET matches == {i \in DOMAIN ALL_DISTINCT_MODELS : ends_with(k, ALL_DISTINCT_MODELS[i])}
  IN IF matches = {} THEN 0
     ELSE CHOOSE i \in matches : \A j \in matches : i >= j

\* the first entry that matches together with its separator
FindModel_WithSeparator(k) ==
  LET matches == {i \in DOMAIN ALL_DISTINCT_MODELS :
                    ends_with(k, <<"_">> \o ALL_DISTINCT_MODELS[i])}
  IN IF matches = {} THEN 0
     ELSE CHOOSE i \in matches : \A j \in matches : i <= j

\* ALL_DISTINCT_MODELS.iter().find(|possible_model| key.ends_with(*possible_model)):
\* the index of the first match, 0 when there is none
FindModel(k) ==
  LET matches == {i \in DOMAIN ALL_DISTINCT_MODELS : ends_with(k, ALL_DISTINCT_MODELS[i])}
  IN IF matches = {} THEN 0
     ELSE CHOOSE i \in matches : \A j \in matches : i <= j

MeasureAndModel(measure, model) ==
  [tag |-> "Ok", measure |-> measure, model |-> model, kind |-> "none"]

KeyError(kind) == [tag |-> "Err", measure |-> <<>>, model |-> <<>>, kind |-> kind]

Unresolved == [tag |-> "none", measure |-> <<>>, model |-> <<>>, kind |-> "none"]

response_key_to_measure_and_model(k) ==
  LET i == FindModel(k) IN
  IF i = 0 THEN KeyError("NoMatchingModel")
  ELSE LET model == ALL_DISTINCT_MODELS[i]
           measure == strip_suffix(k, SeparatorAndModel(model))
       IN IF measure.tag = "None" THEN KeyError("MissingSeparator")
          ELSE MeasureAndModel(measure.val, model)

\* the Lazy static before its first use
NotBuilt == <<>>

\* the measures requested from the three data sources
SummableMeasures ==
  Range(ARCHIVE_DAILY_SUMMABLE_PRECIPITATION_MEASURES)
    \cup Range(FORECAST_DAILY_SUMMABLE_PRECIPITATION_MEASURES)
    \cup Range(ENSEMBLE_DAILY_SUMMABLE_PRECIPITATION_MEASURES)

\* field names are built from a first part, a separator and a last part: the
\* requested measures, the empty string and "x"; "_" or nothing; the known
\* models and "unknown_model"
MeasureInputs == SummableMeasures \cup {<<>>, <<"x">>}

SeparatorInputs == {<<"_">>, <<>>}

ModelInputs == Range(ALL_DISTINCT_MODELS) \cup {<<"u", "n", "k", "n", "o", "w", "n", "_", "m", "o", "d", "e", "l">>}

InitKey ==
  /\ origin \in [measure : MeasureInputs, sep : SeparatorInputs, model : ModelInputs]
  /\ key = origin.measure \o origin.sep \o origin.model
  /\ resolved = Unresolved
  /\ registry = NotBuilt

\* response_key_to_measure_and_model(key); the first use of the Lazy static
\* ALL_DISTINCT_MODELS builds it, every later use finds it built
Resolve ==
  /\ resolved.tag = "none"
  /\ resolved' = response_key_to_measure_and_model(key)
  /\ registry' = ALL_DISTINCT_MODELS
  /\ UNCHANGED <<key, origin, cacheVars, decodeVars, mainVars>>

\* no fetch is made while field names are resolved
InitCacheIdle ==
  /\ now = 0
  /\ ticks = 0
  /\ files = [f \in Paths |-> NoFile]
  /\ task = [p \in Procs |-> IdleTask]
  /\ prev = NoCall
  /\ calls = 0

\* a field name to resolve
InitResolve == InitKey /\ InitCacheIdle /\ InitDecodeIdle /\ InitMainIdle

NextKey == Resolve

SpecKey == InitResolve /\ [][NextKey]_vars

\* serde_json number and null, the numbers in tenths of a millimetre
JsonNumber(n) == [kind |-> "number", num |-> n]

JsonNull == [kind |-> "null", num |-> 0]

\* Option<f64>
SomeF64(x) == [tag |-> "Some", val |-> x]

NoneF64 == [tag |-> "None", val |-> 0]

\* null read as the number zero
deserialize_option_ZeroForNull(j) == SomeF64(j.num)

\* Deserialize for Option<f64>: null is None, a number n is Some(n)
deserialize_option(j) == IF j.kind = "null" THEN NoneF64 ELSE SomeF64(j.num)

\* Deserialize for Vec<Option<f64>>
deserialize_vec(column) == [i \in DOMAIN column |-> deserialize_option(column[i])]

\* the hash key made of the model alone
HashKey_ModelOnly(r) == [measure |-> <<>>, model |-> r.model]

\* struct MeasureAndModel as a HashMap key: derive(PartialEq, Eq, Hash) over
\* both fields
HashKey(r) == [measure |-> r.measure, model |-> r.model]

\* HashMap::insert: a later value for an equal key replaces the earlier one
Insert(map, k, v) == [x \in DOMAIN map \cup {k} |-> IF x = k THEN v ELSE map[x]]

DatasetError(kind, field) ==
  [tag |-> "Err", time |-> <<>>, data_fields |-> EmptyMap, field |-> field, kind |-> kind]

\* Ok(DailyDataColumnarFormat { time, data_fields })
DailyDataColumnarFormat(time, data_fields) ==
  [tag |-> "Ok", time |-> time, data_fields |-> data_fields, field |-> <<>>, kind |-> "none"]

\* a field that does not resolve is left out and the iteration goes on
collect_Result_SkipFailed(acc, k, v) ==
  LET r == response_key_to_measure_and_model(k) IN
  IF r.tag = "Err"
  THEN [tag |-> "Ok", acc |-> acc, field |-> <<>>, kind |-> "none"]
  ELSE [tag |-> "Ok", acc |-> Insert(acc, HashKey(r), v), field |-> <<>>, kind |-> "none"]

\* one item of .map(...).collect::<Result<_, _>>(): the first Err ends the
\* iteration and drops the entries collected so far
collect_Result(acc, k, v) ==
  LET r == response_key_to_measure_and_model(k) IN
  IF r.tag = "Err"
  THEN [tag |-> "Err", acc |-> EmptyMap, field |-> k, kind |-> r.kind]
  ELSE [tag |-> "Ok", acc |-> Insert(acc, HashKey(r), v), field |-> <<>>, kind |-> "none"]

\* the largest number of fields beside "time" in a "daily" object
MaxFields == 3

\* field names of a "daily" object: two measures of one model, one measure of
\* two models of which one name ends with the other, a model that is not
\* known, and a name without the separator
FieldNameInputs ==
  {<<"r", "a", "i", "n", "_", "s", "u", "m", "_", "b", "e", "s", "t", "_", "m", "a", "t", "c", "h">>,
   <<"s", "h", "o", "w", "e", "r", "s", "_", "s", "u", "m", "_", "b", "e", "s", "t", "_", "m", "a", "t", "c", "h">>,
   <<"r", "a", "i", "n", "_", "s", "u", "m", "_", "i", "c", "o", "n", "_", "s", "e", "a", "m", "l", "e", "s", "s">>,
   <<"r", "a", "i", "n", "_", "s", "u", "m", "_", "m", "e", "t", "e", "o", "s", "w", "i", "s", "s", "_", "i", "c", "o", "n", "_", "s", "e", "a", "m", "l", "e", "s", "s">>,
   <<"r", "a", "i", "n", "_", "s", "u", "m", "_", "u", "n", "k", "n", "o", "w", "n", "_", "m", "o", "d", "e", "l">>,
   <<"r", "a", "i", "n", "_", "s", "u", "m", "b", "e", "s", "t", "_", "m", "a", "t", "c", "h">>}

\* the "time" array of the tests, and a shorter one
TimeInputs == {<<"2026-02-13", "2026-02-14">>, <<"2026-02-13">>}

\* value arrays: numbers only (0.0 among them), and null at either index
ColumnInputs ==
  {<<JsonNumber(0), JsonNumber(5)>>,
   <<JsonNull, JsonNumber(5)>>,
   <<JsonNumber(26), JsonNull>>}

\* a text that serde_json rejects, a document without "daily", and documents
\* whose "daily" has "time" and up to MaxFields fields
ResponseInputs ==
  {[shape |-> "invalid", time |-> <<>>, fields |-> EmptyMap],
   [shape |-> "nodaily", time |-> <<>>, fields |-> EmptyMap]}
  \cup {[shape |-> "daily", time |-> t, fields |-> f] :
          t \in TimeInputs,
          f \in UNION {[S -> ColumnInputs] :
                         S \in {S \in SUBSET FieldNameInputs : Cardinality(S) <= MaxFields}}}

InitDecode ==
  /\ response \in ResponseInputs
  /\ decoder = [pc |-> "from_str", time |-> <<>>, data_fields |-> EmptyMap, todo |-> {},
                visited |-> 0, acc |-> EmptyMap, result |-> NoDataset]

\* serde_json::from_str::<DailyDataResponseFullResponse>(&response)
\*   .context("Failed to parse weather data response")?
FromStr ==
  /\ decoder.pc = "from_str"
  /\ IF response.shape = "invalid"
     THEN decoder' = [decoder EXCEPT !.pc = "done", !.result = DatasetError("Parse", <<>>)]
     ELSE decoder' = [decoder EXCEPT
            !.pc = "daily",
            !.time = response.time,
            !.data_fields = [k \in DOMAIN response.fields |->
                               deserialize_vec(response.fields[k])]]
  /\ UNCHANGED <<response, cacheVars, keyVars, mainVars>>

\* response.daily.ok_or_else(|| anyhow!("No daily data in response"))?
\* and response.data_fields.into_iter()
OkOrElse ==
  /\ decoder.pc = "daily"
  /\ IF response.shape = "nodaily"
     THEN decoder' = [decoder EXCEPT !.pc = "done", !.result = DatasetError("NoDaily", <<>>)]
     ELSE decoder' = [decoder EXCEPT !.pc = "iter", !.todo = DOMAIN decoder.data_fields]
  /\ UNCHANGED <<response, cacheVars, keyVars, mainVars>>

\* the iterator of the HashMap yields one more entry, in no particular order
NextField ==
  /\ decoder.pc = "iter"
  /\ \E k \in decoder.todo :
       LET step == collect_Result(decoder.acc, k, decoder.data_fields[k]) IN
       /\ key' = k
       /\ resolved' = response_key_to_measure_and_model(k)
       /\ registry' = ALL_DISTINCT_MODELS
       /\ IF step.tag = "Err"
          THEN decoder' = [decoder EXCEPT
                 !.pc = "done", !.acc = step.acc, !.visited = @ + 1,
                 !.result = DatasetError(step.kind, step.field)]
          ELSE decoder' = [decoder EXCEPT
                 !.todo = @ \ {k}, !.acc = step.acc, !.visited = @ + 1]
  /\ UNCHANGED <<response, origin, cacheVars, mainVars>>

\* the iterator is exhausted:
\* Ok(DailyDataColumnarFormat { time: response.time, data_fields })
Collected ==
  /\ decoder.pc = "iter"
  /\ decoder.todo = {}
  /\ decoder' = [decoder EXCEPT
       !.pc = "done", !.result = DailyDataColumnarFormat(decoder.time, decoder.acc)]
  /\ UNCHANGED <<response, cacheVars, keyVars, mainVars>>

\* a response text to decode
InitDecodeResponse == InitDecode /\ InitKeyIdle /\ InitCacheIdle /\ InitMainIdle

NextDecode == FromStr \/ OkOrElse \/ NextField \/ Collected

SpecDecode == InitDecodeResponse /\ [][NextDecode]_vars

-----------------------------------------------------------------------------
(* main.rs: the date ranges of the requests.  Dates are day numbers. *)

\* the last day number of a start or end date
MaxDay == 20

\* the last day number of the current date
MaxToday == 2

\* chrono::Duration::days(16): the reach of the forecast
ForecastDays == 16

\* let is_historical = end_date < now
is_historical(start_date, end_date, today) == end_date < today

\* let is_forecast = start_date <= now + chrono::Duration::days(16)
is_forecast(start_date, end_date, today) == start_date <= today + ForecastDays

\* the period that starts today counted as mixed
is_mixed_FromToday(start_date, end_date, today) == start_date <= today /\ end_date >= today

\* let is_mixed = start_date < now && end_date >= now
is_mixed(start_date, end_date, today) == start_date < today /\ end_date >= today

\* let hist_end = if is_mixed { now - chrono::Duration::days(1) } else { end_date }
hist_end(start_date, end_date, today) ==
  IF is_mixed(start_date, end_date, today) THEN today - 1 ELSE end_date

\* let forecast_start = if is_mixed { now } else { start_date }
forecast_start(start_date, end_date, today) ==
  IF is_mixed(start_date, end_date, today) THEN today ELSE start_date

\* let forecast_end = if end_date > now + 16 days { now + 16 days } else { end_date }
forecast_end(start_date, end_date, today) ==
  IF end_date > today + ForecastDays THEN today + ForecastDays ELSE end_date

\* a call of fetch_all_summable_precipitation_data(source, .., start, end, ..)
Request(source, first, last) == [source |-> source, start |-> first, end |-> last]

\* the command line (--start, --end, --historical, --forecast, --ensemble) and
\* the current date
InitRun ==
  \E s, e \in 0..MaxDay, t \in 0..MaxToday, h, f, en \in BOOLEAN :
    run = [pc |-> "dates", start_date |-> s, end_date |-> e, today |-> t,
           historical |-> h, forecast |-> f, ensemble |-> en,
           requests |-> <<>>, retrieved |-> 0, result |-> "none"]

\* if end_date < start_date { bail!("End date must be after start date") }
CheckDates ==
  /\ run.pc = "dates"
  /\ IF run.end_date < run.start_date
     THEN run' = [run EXCEPT !.pc = "done", !.result = "Err"]
     ELSE run' = [run EXCEPT !.pc = "location"]
  /\ UNCHANGED <<cacheVars, keyVars, decodeVars>>

\* PrecipitationUnit::try_from(..)?, geocoding::geocode_city(..).await?, or
\* bail!("Must specify either --city or both --lat and --lon")
Locate ==
  /\ run.pc = "location"
  /\ \E ok \in BOOLEAN :
       IF ok THEN run' = [run EXCEPT !.pc = "historical"]
       ELSE run' = [run EXCEPT !.pc = "done", !.result = "Err"]
  /\ UNCHANGED <<cacheVars, keyVars, decodeVars>>

\* if cli.historical && (is_historical || is_mixed) { fetch HistoricalArchive };
\* a fetch that fails is reported and main goes on
FetchHistorical ==
  /\ run.pc = "historical"
  /\ LET s == run.start_date
         e == run.end_date
         t == run.today
     IN IF run.historical /\ (is_historical(s, e, t) \/ is_mixed(s, e, t))
        THEN \E got \in {0, 1} :
               run' = [run EXCEPT
                 !.pc = "forecast",
                 !.requests = Append(@, Request("HistoricalArchive", s, hist_end(s, e, t))),
                 !.retrieved = @ + got]
        ELSE run' = [run EXCEPT !.pc = "forecast"]
  /\ UNCHANGED <<cacheVars, keyVars, decodeVars>>

\* if cli.forecast && is_forecast { fetch ForecastStandard; .. }
FetchForecast ==
  /\ run.pc = "forecast"
  /\ LET s == run.start_date
         e == run.end_date
         t == run.today
     IN IF run.forecast /\ is_forecast(s, e, t)
        THEN \E got \in {0, 1} :
               run' = [run EXCEPT
                 !.pc = "ensemble",
                 !.requests = Append(@, Request("ForecastStandard",
                                forecast_start(s, e, t), forecast_end(s, e, t))),
                 !.retrieved = @ + got]
        ELSE run' = [run EXCEPT !.pc = "report"]
  /\ UNCHANGED <<cacheVars, keyVars, decodeVars>>

\* if cli.ensemble { fetch ForecastEnsemble } with the range of the forecast
FetchEnsemble ==
  /\ run.pc = "ensemble"
  /\ LET s == run.start_date
         e == run.end_date
         t == run.today
     IN IF run.ensemble
        THEN \E got \in {0, 1} :
               run' = [run EXCEPT
                 !.pc = "report",
                 !.requests = Append(@, Request("ForecastEnsemble",
                                forecast_start(s, e, t), forecast_end(s, e, t))),
                 !.retrieved = @ + got]
        ELSE run' = [run EXCEPT !.pc = "report"]
  /\ UNCHANGED <<cacheVars, keyVars, decodeVars>>

\* if all_data.is_empty() { bail!("No data retrieved from any source") };
\* the tables are printed otherwise
Report ==
  /\ run.pc = "report"
  /\ run' = [run EXCEPT !.pc = "done",
                        !.result = IF run.retrieved = 0 THEN "Err" ELSE "Ok"]
  /\ UNCHANGED <<cacheVars, keyVars, decodeVars>>

\* one run of the program
InitMain == InitRun /\ InitCacheIdle /\ InitKeyIdle /\ InitDecodeIdle

NextMain ==
  CheckDates \/ Locate \/ FetchHistorical \/ FetchForecast \/ FetchEnsemble \/ Report

SpecMain == InitMain /\ [][NextMain]_vars

-----------------------------------------------------------------------------
(* Properties of the cache *)

\* the call of p has returned a value that its caller has not yet taken
Done(p) == task[p].pc = "done"

\* the I/O failures of read_if_fresh
ReadFailures == {"metadata", "read"}

\* the freshness check of p's call found a file whose age was in [0, 1 hour)
SawFresh(p) ==
  /\ task[p].checked
  /\ task[p].tcheck - task[p].mtimeSeen >= 0
  /\ task[p].tcheck - task[p].mtimeSeen < OneHour

SecondCall(p) ==
  /\ Done(p)
  /\ task[p].url \in GoodUrls
  /\ prev.url = task[p].url
  /\ ~prev.freshAtCall
  /\ task[p].tcheck - prev.tcall < OneHour

\* neither of the two calls met a failure of the cache directory, of the cache
\* read path or of the cache store
BothCleanIo(p) ==
  /\ prev.cleanIo
  /\ task[p].ioFail = "none"
  /\ task[p].lookup.tag \in {"Some", "None"}

\* C2 as stated: two consecutive calls for a URL without a fresh entry, the
\* second within the TTL window of the first, issue exactly one HTTP request
\* (stated here for the calls that meet no file system failure).
C2_TwoCallsOneRequest ==
  \A p \in Procs :
    SecondCall(p) /\ BothCleanIo(p) => prev.reqs + task[p].reqs = 1

\* C2 amended: when the HTTP request of the first of the two calls succeeds
\* and its body is stored in the cache file, the two calls issue exactly one
\* HTTP request in total.
C2_TwoCallsOneRequestAfterStore ==
  \A p \in Procs :
    SecondCall(p) /\ prev.wrote => prev.reqs + task[p].reqs = 1

C2_Witness ==
  \E p \in Procs :
    /\ SecondCall(p) /\ prev.wrote /\ prev.reqs = 1
    /\ task[p].reqs = 0
    /\ task[p].result.tag = "Ok"
    /\ task[p].tcheck - prev.tcall = OneHour - 1

\* C3: a failure on the cache read path (metadata or modification time
\* unreadable, file unreadable, negative age) is treated as a cache miss: the
\* call does not return that failure and goes on to the HTTP request.
C3_ReadFailureIsMiss ==
  \A p \in Procs :
    Done(p) /\ task[p].lookup.tag = "Err" =>
      /\ task[p].result # task[p].lookup
      /\ task[p].reqs = 1

\* C4: when the HTTP request succeeded and the body was read, the call returns
\* Ok(body) even if storing the body in the cache file fails.
C4_StoreFailureKeepsBody ==
  \A p \in Procs :
    Done(p) /\ task[p].ioFail \in {"create", "write"} =>
      task[p].result = Ok(task[p].body)

Quiet == \A p \in Procs : task[p].pc = "idle"

\* C6: with concurrent calls for one URL, every body returned to a caller is
\* the complete body of a success response (never an empty or partly written
\* file), and once all calls have finished the file holds exactly the body of
\* the caller that wrote last.
C6_NoTornBody ==
  /\ \A p \in Procs :
       Done(p) /\ task[p].result.tag = "Ok" => task[p].result.body \in Bodies
  /\ Quiet =>
       \A f \in Paths :
         files[f].exists /\ files[f].lastDone => files[f].contents = files[f].lastBody

\* no caller is between the File::create and the end of write_all of f
NotBeingWritten(f) == \A p \in Procs : ~(task[p].pc = "write" /\ task[p].path = f)

\* C7: a non-success response makes the call return an error, its body is
\* neither returned nor written to the cache, and so in every reachable state
\* the contents of each cache file are the body of a success response (stated
\* here for the files that no caller is writing).
C7_OnlySuccessBodiesCached ==
  /\ \A p \in Procs :
       Done(p) /\ task[p].net = "failure" =>
         /\ task[p].result.tag = "Err"
         /\ ~task[p].wrote
  /\ \A f \in Paths :
       files[f].exists /\ NotBeingWritten(f) => files[f].contents \in Bodies

-----------------------------------------------------------------------------
(* Properties of the key resolver *)

\* the entries of ALL_DISTINCT_MODELS that are a suffix of k
SuffixModels(k) == {m \in Range(ALL_DISTINCT_MODELS) : ends_with(k, m)}

\* C9: when response_key_to_measure_and_model(key) succeeds, the model it
\* returns is the longest entry of ALL_DISTINCT_MODELS that is a suffix of key.
C9_LongestSuffixModel ==
  resolved.tag = "Ok" =>
    /\ resolved.model \in SuffixModels(key)
    /\ \A m \in SuffixModels(key) : Len(m) <= Len(resolved.model)

C9_Witness ==
  /\ key = <<"r", "a", "i", "n", "_", "s", "u", "m", "_", "m", "e", "t", "e", "o", "s", "w", "i", "s", "s", "_", "i", "c", "o", "n", "_", "s", "e", "a", "m", "l", "e", "s", "s">>
  /\ resolved.tag = "Ok"
  /\ resolved.model = <<"m", "e", "t", "e", "o", "s", "w", "i", "s", "s", "_", "i", "c", "o", "n", "_", "s", "e", "a", "m", "l", "e", "s", "s">>
  /\ <<"i", "c", "o", "n", "_", "s", "e", "a", "m", "l", "e", "s", "s">> \in SuffixModels(key)

\* C10: for every requested measure and every model of ALL_DISTINCT_MODELS,
\* response_key_to_measure_and_model(measure + "_" + model) succeeds and
\* returns exactly (measure, model).
C10_RoundTrip ==
  /\ resolved.tag # "none"
  /\ origin.measure \in SummableMeasures
  /\ origin.sep = <<"_">>
  /\ origin.model \in Range(ALL_DISTINCT_MODELS)
  => resolved = MeasureAndModel(origin.measure, origin.model)

C10_Witness ==
  /\ key = <<"p", "r", "e", "c", "i", "p", "i", "t", "a", "t", "i", "o", "n", "_", "h", "o", "u", "r", "s", "_", "k", "m", "a", "_", "l", "d", "p", "s">>
  /\ resolved = MeasureAndModel(<<"p", "r", "e", "c", "i", "p", "i", "t", "a", "t", "i", "o", "n", "_", "h", "o", "u", "r", "s">>, <<"k", "m", "a", "_", "l", "d", "p", "s">>)

\* the longest entry of ALL_DISTINCT_MODELS that is a suffix of k (k has one)
LongestSuffixModel(k) ==
  CHOOSE m \in SuffixModels(k) : \A n \in SuffixModels(k) : Len(n) <= Len(m)

\* the suffix m of k is immediately preceded by "_" in k
PrecededBySeparator(k, m) == Len(k) > Len(m) /\ k[Len(k) - Len(m)] = "_"

\* the longest suffix model of k exists and is immediately preceded by "_"
LongestIsSeparated(k) ==
  IF SuffixModels(k) = {} THEN FALSE
  ELSE PrecededBySeparator(k, LongestSuffixModel(k))

\* C11: response_key_to_measure_and_model(key) fails with "no matching model"
\* exactly when no entry of ALL_DISTINCT_MODELS is a suffix of key, fails with
\* "missing separator" exactly when the longest suffix entry is not
\* immediately preceded by "_" (the key that equals a model name included),
\* and succeeds in every other case.
C11_ErrorKinds ==
  resolved.tag # "none" =>
    /\ resolved = KeyError("NoMatchingModel") <=> SuffixModels(key) = {}
    /\ resolved = KeyError("MissingSeparator") <=>
         SuffixModels(key) # {} /\ ~LongestIsSeparated(key)
    /\ resolved.tag = "Ok" <=> LongestIsSeparated(key)

C11_Witness ==
  /\ key \in Range(ALL_DISTINCT_MODELS)
  /\ resolved = KeyError("MissingSeparator")

\* C12: once built, ALL_DISTINCT_MODELS holds exactly the union of
\* ARCHIVE_MODELS, FORECAST_MODELS and ENSEMBLE_MODELS, each name once, in
\* non-increasing length, names of equal length in ascending byte order.
C12_RegistryOrder ==
  registry # NotBuilt =>
    /\ Range(registry) = Range(ARCHIVE_MODELS) \cup Range(FORECAST_MODELS)
                           \cup Range(ENSEMBLE_MODELS)
    /\ \A i, j \in DOMAIN registry :
         i < j =>
           /\ registry[i] # registry[j]
           /\ Len(registry[i]) >= Len(registry[j])
           /\ Len(registry[i]) = Len(registry[j]) => StrLess(registry[i], registry[j])

C12_Witness ==
  /\ registry # NotBuilt
  /\ Len(registry) < Len(ARCHIVE_MODELS) + Len(FORECAST_MODELS) + Len(ENSEMBLE_MODELS)
  /\ \E i \in DOMAIN registry :
       /\ i + 1 \in DOMAIN registry
       /\ Len(registry[i]) = Len(registry[i + 1])
  /\ \E i \in DOMAIN registry :
       /\ i + 1 \in DOMAIN registry
       /\ Len(registry[i]) > Len(registry[i + 1])

\* C18: when the longest suffix model of key is not immediately preceded by
\* "_", response_key_to_measure_and_model(key) fails with "missing separator"
\* even if a shorter entry of ALL_DISTINCT_MODELS is a suffix of key that is
\* preceded by "_": it never falls back to the shorter entry.
C18_NoFallback ==
  \A short \in SuffixModels(key) :
    /\ resolved.tag # "none"
    /\ Len(short) < Len(LongestSuffixModel(key))
    /\ PrecededBySeparator(key, short)
    /\ ~PrecededBySeparator(key, LongestSuffixModel(key))
    => resolved = KeyError("MissingSeparator")

C18_Witness ==
  /\ key = <<"x", "m", "e", "t", "e", "o", "s", "w", "i", "s", "s", "_", "i", "c", "o", "n", "_", "s", "e", "a", "m", "l", "e", "s", "s">>
  /\ <<"i", "c", "o", "n", "_", "s", "e", "a", "m", "l", "e", "s", "s">> \in SuffixModels(key)
  /\ PrecededBySeparator(key, <<"i", "c", "o", "n", "_", "s", "e", "a", "m", "l", "e", "s", "s">>)
  /\ resolved = KeyError("MissingSeparator")

-----------------------------------------------------------------------------
(* Properties of the decoder *)

\* the fields of the "daily" object that response_key_to_measure_and_model
\* rejects
FailingFields ==
  {k \in DOMAIN response.fields : response_key_to_measure_and_model(k).tag = "Err"}

\* C13: when response_key_to_measure_and_model fails for a field of "daily",
\* decode_response_to_daily_data_columnar_format returns an error that names a
\* failing field with that field's error, and no dataset, however many other
\* fields resolve and in whatever order the fields are visited.
C13_AllOrNothing ==
  decoder.result.tag # "none" /\ FailingFields # {} =>
    /\ decoder.result.tag = "Err"
    /\ decoder.result.field \in FailingFields
    /\ decoder.result.kind = response_key_to_measure_and_model(decoder.result.field).kind
    /\ decoder.result.time = <<>>
    /\ decoder.result.data_fields = EmptyMap

C13_Witness ==
  /\ decoder.result.tag = "Err"
  /\ Cardinality(DOMAIN response.fields) = 3
  /\ Cardinality(FailingFields) = 1
  /\ decoder.visited = 3

\* C14: for a document whose "daily" has "time" and fields that all resolve,
\* the decode succeeds, time is the input "time", and each resolved
\* (measure, model) maps to the input values of its field, index by index:
\* null is None, a number n is Some(n), never a number in place of null.
C14_DecodeKeepsValues ==
  /\ decoder.result.tag # "none"
  /\ response.shape = "daily"
  /\ FailingFields = {}
  => /\ decoder.result.tag = "Ok"
     /\ decoder.result.time = response.time
     /\ \A k \in DOMAIN response.fields :
          LET r == response_key_to_measure_and_model(k)
              mm == [measure |-> r.measure, model |-> r.model]
              input == response.fields[k]
          IN /\ mm \in DOMAIN decoder.result.data_fields
             /\ LET column == decoder.result.data_fields[mm] IN
                /\ Len(column) = Len(input)
                /\ \A i \in DOMAIN input :
                     IF input[i].kind = "null"
                     THEN column[i].tag = "None"
                     ELSE column[i] = [tag |-> "Some", val |-> input[i].num]

C14_Witness ==
  LET rain == [measure |-> <<"r", "a", "i", "n", "_", "s", "u", "m">>,
               model |-> <<"b", "e", "s", "t", "_", "m", "a", "t", "c", "h">>]
      showers == [measure |-> <<"s", "h", "o", "w", "e", "r", "s", "_", "s", "u", "m">>,
                  model |-> <<"b", "e", "s", "t", "_", "m", "a", "t", "c", "h">>]
  IN /\ decoder.result.tag = "Ok"
     /\ DOMAIN decoder.result.data_fields = {rain, showers}
     /\ response.fields[<<"r", "a", "i", "n", "_", "s", "u", "m", "_", "b", "e", "s", "t", "_", "m", "a", "t", "c", "h">>] = <<JsonNull, JsonNumber(5)>>
     /\ response.fields[<<"s", "h", "o", "w", "e", "r", "s", "_", "s", "u", "m", "_", "b", "e", "s", "t", "_", "m", "a", "t", "c", "h">>] = <<JsonNumber(0), JsonNumber(5)>>
     /\ decoder.result.data_fields[rain] = <<NoneF64, SomeF64(5)>>
     /\ decoder.result.data_fields[showers] = <<SomeF64(0), SomeF64(5)>>

\* C19: whenever response_key_to_measure_and_model(key) succeeds with
\* (measure, model), model is an entry of ALL_DISTINCT_MODELS and
\* measure + "_" + model is key; distinct field names therefore give distinct
\* pairs, and a successful decode returns as many data_fields entries as the
\* "daily" object has fields beside "time".
C19_PairsAreInjective ==
  /\ resolved.tag = "Ok" =>
       /\ resolved.model \in Range(ALL_DISTINCT_MODELS)
       /\ resolved.measure \o <<"_">> \o resolved.model = key
  /\ \A k1, k2 \in DOMAIN response.fields \ FailingFields :
       LET r1 == response_key_to_measure_and_model(k1)
           r2 == response_key_to_measure_and_model(k2)
       IN k1 # k2 => r1.measure # r2.measure \/ r1.model # r2.model
  /\ decoder.result.tag = "Ok" =>
       Cardinality(DOMAIN decoder.result.data_fields)
         = Cardinality(DOMAIN response.fields)

C19_Witness ==
  /\ decoder.result.tag = "Ok"
  /\ resolved.tag = "Ok"
  /\ DOMAIN response.fields = {<<"r", "a", "i", "n", "_", "s", "u", "m", "_", "b", "e", "s", "t", "_", "m", "a", "t", "c", "h">>, <<"s", "h", "o", "w", "e", "r", "s", "_", "s", "u", "m", "_", "b", "e", "s", "t", "_", "m", "a", "t", "c", "h">>, <<"r", "a", "i", "n", "_", "s", "u", "m", "_", "m", "e", "t", "e", "o", "s", "w", "i", "s", "s", "_", "i", "c", "o", "n", "_", "s", "e", "a", "m", "l", "e", "s", "s">>}
  /\ Cardinality(DOMAIN decoder.result.data_fields) = 3

-----------------------------------------------------------------------------
(* Properties of the cache: termination, overwrite, failed fetches *)

\* C15: every fetch_url_cached call eventually returns, also when the server
\* accepts the request and never responds.
C15_CallReturns ==
  \A p \in Procs : (task[p].pc \notin {"idle", "done"}) ~> (task[p].pc = "done")

\* C16: after successful stores for one URL, made one after the other, the
\* cache file holds exactly the body of the most recent store and nothing of
\* an earlier body, its modification time is that of this store, and a lookup
\* that finds the file fresh returns this body.
C16_StoreReplaces ==
  /\ \A f \in Paths :
       files[f].exists /\ files[f].lastDone => files[f].contents = files[f].lastBody
  /\ \A p \in Procs :
       Done(p) /\ task[p].wrote =>
         /\ files[task[p].path].contents = task[p].body
         /\ files[task[p].path].mtime >= task[p].tcall
         /\ files[task[p].path].mtime <= now
  /\ \A p \in Procs :
       /\ Done(p) /\ SawFresh(p)
       /\ task[p].ioFail \notin ReadFailures
       /\ files[task[p].path].lastDone
       => task[p].result = Ok(files[task[p].path].lastBody)

\* a stale two-chunk entry left by an earlier run is fetched again, and the
\* file then holds the one-chunk body
C16_Witness ==
  \E p \in Procs :
    /\ Done(p) /\ task[p].wrote
    /\ calls = 1
    /\ task[p].checked /\ task[p].lookup = None
    /\ Len(task[p].cacheAtCall[task[p].path].contents) = 2
    /\ files[task[p].path].contents = <<"b1">>

\* the ways the network step of a call fails: connection error, non-success
\* status, body read error
NetFailures == {"connect", "failure", "body"}

\* C17: a fetch_url_cached call that fails at the network step leaves the
\* cache as it was when the call began: the entry of its URL keeps its
\* existence, contents and modification time (a stale entry stays stale and
\* is not deleted), and the entries of the other URLs are not touched.
C17_FailedFetchLeavesCache ==
  \A p \in Procs :
    Done(p) /\ task[p].net \in NetFailures =>
      /\ task[p].result.tag = "Err"
      /\ files = task[p].cacheAtCall

C17_Witness ==
  \E p \in Procs :
    /\ Done(p) /\ task[p].net = "failure"
    /\ task[p].checked /\ task[p].lookup = None
    /\ files[task[p].path].exists
    /\ files[task[p].path].mtime = task[p].mtimeSeen
    /\ now - files[task[p].path].mtime >= OneHour
    /\ \E f \in Paths : f # task[p].path /\ files[f].exists

-----------------------------------------------------------------------------
(* Properties of main *)

\* the requests of a run made to the given sources
RequestsTo(sources) ==
  {run.requests[i] : i \in {j \in DOMAIN run.requests : run.requests[j].source \in sources}}

ForecastSources == {"ForecastStandard", "ForecastEnsemble"}

\* C20: for every period with start_date <= end_date and every current date,
\* each request of main has a non-empty date range: the historical range
\* [start_date, hist_end] has start_date <= hist_end < today, a forecast or
\* ensemble range [forecast_start, forecast_end] has
\* forecast_start <= forecast_end <= today + 16 days, and when
\* start_date < today <= end_date the historical range ends before the
\* forecast range begins.
C20_DateRanges ==
  /\ \A q \in RequestsTo({"HistoricalArchive"}) :
       /\ q.start = run.start_date
       /\ q.start <= q.end
       /\ q.end < run.today
  /\ \A q \in RequestsTo(ForecastSources) :
       /\ q.start <= q.end
       /\ q.end <= run.today + 16
  /\ run.start_date < run.today /\ run.today <= run.end_date =>
       \A h \in RequestsTo({"HistoricalArchive"}), f \in RequestsTo(ForecastSources) :
         h.end < f.start

\* a period from before today to beyond the reach of the forecast, all three
\* sources requested
C20_Witness ==
  /\ run.pc = "done"
  /\ run.start_date < run.today
  /\ run.end_date > run.today + 16
  /\ Len(run.requests) = 3
  /\ run.requests[1] = [source |-> "HistoricalArchive", start |-> run.start_date,
                        end |-> run.today - 1]
  /\ run.requests[3] = [source |-> "ForecastEnsemble", start |-> run.today,
                        end |-> run.today + 16]

====
